---- MODULE Spec2Model ----
(***************************************************************************)
(* Delayed message pipeline of faulty_in_culture_back:                     *)
(*   POST /send-message  (handlers.SendMessage)                            *)
(*   Redis Streams queue (queue.EnqueueDelayedMessage, StartWorker,        *)
(*                        processMessage)                                  *)
(*   task handler        (handlers.ProcessDelayedMessage)                  *)
(*   WebSocket registry  (websocket.Manager)                               *)
(*   offline store       (queue.StoreOfflineMessage & co)                  *)
(*   reconnect drain     (handlers.pushOfflineMessages)                    *)
(*   retention sweep     (scheduler.cleanupOldMessages)                    *)
(* The clock counts ticks; one second is TicksPerSec ticks, so that the    *)
(* truncation done by time.Time.Unix() is visible.                         *)
(***************************************************************************)
EXTENDS Integers, Sequences, FiniteSets, TLC

----------------------------------------------------------------------------
(* Bounds of the model *)

MaxAttempts == 2
MaxForeign == 1
MaxCrashes == 1
MaxReplays == 1
TicksPerSec == 2
MaxClock == 4
MaxLoad == 1
MaxPolls == 2
MaxWsClients == 3
MaxWsPanics == 1
MaxWsSends == 2
\* Capacity of Client.Send, make(chan []byte, 256) in the program
ChanCap == 2
\* Keepalive pings one WritePump sends
MaxWsPings == 1

(* Program constants *)

DefaultDelaySeconds == 10
DefaultCleanupDays == 30
DefaultFailedCleanupDays == 7
ReadCount == 10
DefaultLimit == 10
MaxLimit == 100
OfflineTTLSeconds == 3600

Users == {1, 2}
ConnIds == {1, 2}

\* The rows of the users table; 3 is a recipient id without a row
ExistingUsers == {1, 2}
UnknownUser == 3

\* config.AppConfig.Message as loaded from the configuration file
AppConfig == [DelaySeconds |-> 1, CleanupDays |-> 1, FailedCleanupDays |-> 2]

\* The arguments of wsManager.StartHeartbeat(interval, timeout), in ticks
HeartbeatArgs == [interval |-> 1, timeout |-> 2]

----------------------------------------------------------------------------
(* Configuration and time *)

\* SendMessage: delaySeconds <= 0 is replaced by the default
EffectiveDelaySeconds(configured) ==
    IF configured <= 0 THEN DefaultDelaySeconds ELSE configured

\* cleanupOldMessages: cleanupDays <= 0 is replaced by the default
EffectiveCleanupDays(configured) ==
    IF configured <= 0 THEN DefaultCleanupDays ELSE configured

\* time.Time.Unix(): whole seconds, the sub-second part is dropped
Unix(t) == t \div TicksPerSec

\* time.Duration(n) * time.Second, in ticks
Seconds(n) == n * TicksPerSec

\* time.Now().AddDate(0, 0, -n): in the model a day of the retention
\* window lasts one tick.
Days(n) == n

DelayTicks == Seconds(EffectiveDelaySeconds(AppConfig.DelaySeconds))

----------------------------------------------------------------------------
VARIABLES
    clock,          \* wall clock, in ticks
    db,             \* messages table: task id -> row
    resp,           \* HTTP responses of POST /send-message, one per request
    stream,         \* the Redis stream message:stream (entry id = index)
    lastDelivered,  \* last-delivered-id of the consumer group
    pel,            \* pending entries list of the group (delivered, not acked)
    workerUp,       \* the process (and its worker loop) is running
    gors,           \* processMessage goroutines, in spawn order
    clients,        \* Manager.clients: user -> connection id (0 = absent)
    conns,          \* sockets: connection id -> state
    drains,         \* pushOfflineMessages goroutines, one per connection
    offline,        \* offline:result:<task> keys: task -> value
    frames,         \* text frames written to sockets
    crashes,        \* process crashes so far
    replays,        \* entries handed out again by the broker so far
    ttl,            \* offline:result:<task> keys: task -> expiry set, in seconds
    polls,          \* GET /query-result requests, in arrival order
    registry,       \* ws.Manager.clients: user -> clients, in append order
    wsClients,      \* ws.Client values made by Register, in creation order
    wsPanics,       \* panics raised inside ws.Manager so far
    wsSends,        \* ws.Manager.SendToUser calls, in call order
    lastActive,     \* Manager.lastActive: user -> time (NullTime = absent)
    hb,             \* the goroutine of Manager.StartHeartbeat
    listing         \* the latest answer of GET /messages

\* The state of the multi-client ws.Manager
wsVars == <<registry, wsClients, wsPanics, wsSends>>

\* The heartbeat of the Manager the message handler uses
hbVars == <<lastActive, hb>>

vars == <<clock, db, resp, stream, lastDelivered, pel, workerUp, gors, clients,
          conns, drains, offline, frames, crashes, replays, ttl, polls,
          wsVars, hbVars, listing>>

Tasks == 1..MaxAttempts

----------------------------------------------------------------------------
(* Values *)

NullTime == -1

\* Message.Content: the request text, or the handler's result text
\* "处理完成: <message> [processed at <yyyy-mm-dd hh:mm:ss>]"
RequestText(t) == [kind |-> "request", task |-> t, at |-> 0]
ResultText(t, now) == [kind |-> "result", task |-> t, at |-> Unix(now)]
NoText == [kind |-> "none", task |-> 0, at |-> 0]

NoRow == [status |-> "none", user |-> 0, content |-> NoText,
          processed_at |-> NullTime, created_at |-> NullTime, deleted |-> FALSE]

\* models.Message as created by SendMessage
NewRow(t, u, now) ==
    [status |-> "pending", user |-> u, content |-> RequestText(t),
     processed_at |-> NullTime, created_at |-> now, deleted |-> FALSE]

\* queue.MessagePayload wrapped in a stream entry {"data": json}
Envelope(t, u, due) == [kind |-> "ok", task |-> t, user |-> u, due |-> due]

\* An entry some other producer added: no "data" field, or "data" is not JSON
ForeignEntry(k) == [kind |-> k, task |-> 0, user |-> 0, due |-> 0]

----------------------------------------------------------------------------
(* Goroutines *)

\* One processMessage goroutine. ran: the handler was invoked; wrote: its
\* UPDATE changed a row; outcome: what the delivery routing did; err: the
\* handler returned an error.
NewGor(e) ==
    [entry |-> e, pc |-> "start", wake |-> 0, result |-> NoText, conn |-> 0,
     ran |-> FALSE, wrote |-> FALSE, outcome |-> "none", err |-> FALSE]

GorIds == 1..Len(gors)

EntryOf(i) == stream[gors[i].entry]

SetGor(i, g) == gors' = [gors EXCEPT ![i] = g]

\* One pushOfflineMessages goroutine
NoDrain == [pc |-> "none", keys |-> {}, task |-> 0, val |-> NoText]

\* silent: the peer is gone and the server's socket has not noticed; reads
\* block and no pong or frame arrives
NoConn == [user |-> 0, open |-> FALSE, handler |-> FALSE, silent |-> FALSE]

\* The heartbeat goroutine: not started yet
NoHeartbeat == [on |-> FALSE, pc |-> "wait", due |-> 0, toRemove |-> {}]

\* No GET /messages answered yet
NoListing == [code |-> 0, pageIn |-> 0, limitIn |-> 0, page |-> 0,
              limit |-> 0, total |-> 0, count |-> 0]

----------------------------------------------------------------------------
Init ==
    /\ clock = 0
    /\ db = [t \in Tasks |-> NoRow]
    /\ resp = <<>>
    /\ stream = <<>>
    /\ lastDelivered = 0
    /\ pel = {}
    /\ workerUp = TRUE
    /\ gors = <<>>
    /\ clients = [u \in Users |-> 0]
    /\ conns = [c \in ConnIds |-> NoConn]
    /\ drains = [c \in ConnIds |-> NoDrain]
    /\ offline = [t \in Tasks |-> NoText]
    /\ frames = {}
    /\ crashes = 0
    /\ replays = 0
    /\ ttl = [t \in Tasks |-> 0]
    /\ polls = <<>>
    /\ registry = [u \in Users |-> <<>>]
    /\ wsClients = <<>>
    /\ wsPanics = 0
    /\ wsSends = <<>>
    /\ lastActive = [u \in Users |-> NullTime]
    /\ hb = NoHeartbeat
    /\ listing = NoListing

\* Time passes.
Tick ==
    /\ clock < MaxClock
    /\ clock' = clock + 1
    /\ UNCHANGED <<db, resp, stream, lastDelivered, pel, workerUp, gors,
                   clients, conns, drains, offline, frames, crashes, replays, ttl, polls,
                   wsVars, hbVars, listing>>

----------------------------------------------------------------------------
(* POST /send-message *)

\* queue.EnqueueDelayedMessage: processTime := time.Now().Add(delay).Unix()
EnqueueDelayedMessage(t, u, delay) == Envelope(t, u, Unix(clock + delay))

\* A compensating update that changes nothing
MarkFailedLeavesPending(row) == row

\* database.DB.Model(&message).Update("status", "failed")
MarkFailed(row) == [row EXCEPT !.status = "failed"]

\* The HTTP response, with the step of the handler that failed
Response(code, t, failed) == [code |-> code, task |-> t, failed |-> failed]

\* database.DB.Create(&message) fails: the database is in trouble
\* (createErr), or the row violates the foreign key messages.user_id ->
\* users.id of models.Message
CreateFails(u, createErr) == createErr \/ u \notin ExistingUsers

\* A handler that goes on to the enqueue after a failed insert
HandlerPathIgnoresCreate(bad, createFailed, enqueueErr, updateErr) ==
    IF bad THEN "bind"
    ELSE IF enqueueErr THEN (IF updateErr THEN "compensate" ELSE "enqueue")
    ELSE "none"

\* The return statement the handler reaches
HandlerPath(bad, createFailed, enqueueErr, updateErr) ==
    IF bad THEN "bind"
    ELSE IF createFailed THEN "create"
    ELSE IF enqueueErr THEN (IF updateErr THEN "compensate" ELSE "enqueue")
    ELSE "none"

\* The status line and the body of the response at that return statement:
\* {"error": ...} or {"task_id": ..., "message": ...}
StatusCode(path) == IF path = "bind" THEN 400
                    ELSE IF path = "none" THEN 200 ELSE 500
BodyShape(path) == IF path = "none" THEN "task_id" ELSE "error"

\* The whole handler. bad: the body does not bind; createErr, enqueueErr,
\* updateErr: the database insert, the XADD, the compensating update fail.
\* The last guard keeps every due time within the clock's range.
SendMessage(u, bad, createErr, enqueueErr, updateErr) ==
    LET t == Len(resp) + 1
        row == NewRow(t, u, clock)
        createFailed == CreateFails(u, createErr)
        path == HandlerPath(bad, createFailed, enqueueErr, updateErr)
    IN
    /\ workerUp
    /\ Len(resp) < MaxAttempts
    /\ clock + DelayTicks + TicksPerSec - 1 <= MaxClock
    /\ resp' = Append(resp, Response(StatusCode(path),
                                      IF path = "none" THEN t ELSE 0, path))
    /\ db' = IF bad \/ createFailed THEN db
             ELSE [db EXCEPT ![t] = IF path = "enqueue" THEN MarkFailed(row)
                                    ELSE row]
    /\ stream' = IF path = "none"
                 THEN Append(stream, EnqueueDelayedMessage(t, u, DelayTicks))
                 ELSE stream
    /\ UNCHANGED <<clock, lastDelivered, pel, workerUp, gors, clients, conns,
                   drains, offline, frames, crashes, replays, ttl, polls,
                   wsVars, hbVars, listing>>

\* Another producer XADDs an entry the worker cannot decode.
ForeignAdd(k) ==
    /\ Cardinality({e \in 1..Len(stream) : stream[e].kind # "ok"}) < MaxForeign
    /\ stream' = Append(stream, ForeignEntry(k))
    /\ UNCHANGED <<clock, db, resp, lastDelivered, pel, workerUp, gors, clients,
                   conns, drains, offline, frames, crashes, replays, ttl, polls,
                   wsVars, hbVars, listing>>

----------------------------------------------------------------------------
(* queue.StartWorker *)

Min(a, b) == IF a < b THEN a ELSE b

\* XREADGROUP with "0" in place of ">": pending entries are read again
NewEntriesFromZero == 1..Min(Len(stream), ReadCount)

\* XREADGROUP ... ">" COUNT 10: the entries never delivered to the group
NewEntries == (lastDelivered + 1)..Min(Len(stream), lastDelivered + ReadCount)

\* go processMessage(message, handler) for each entry of the batch
RECURSIVE Spawn(_, _)
Spawn(gs, batch) ==
    IF batch = {} THEN gs
    ELSE LET e == CHOOSE x \in batch : \A y \in batch : x <= y
         IN Spawn(Append(gs, NewGor(e)), batch \ {e})

\* One iteration of the loop that got entries: they enter the pending list,
\* the group's cursor moves, and each entry gets its goroutine.
WorkerRead ==
    /\ workerUp
    /\ NewEntries # {}
    /\ lastDelivered' = Min(Len(stream), lastDelivered + ReadCount)
    /\ pel' = pel \cup NewEntries
    /\ gors' = Spawn(gors, NewEntries)
    /\ UNCHANGED <<clock, db, resp, stream, workerUp, clients, conns, drains,
                   offline, frames, crashes, replays, ttl, polls,
                   wsVars, hbVars, listing>>

----------------------------------------------------------------------------
(* websocket.Manager *)

\* Manager.IsOnline
IsOnline(u) == clients[u] # 0

\* m.lastActive[userID] = time.Now(). Only the heartbeat goroutine reads
\* the map, so it is kept while that goroutine runs.
Touch(u) == IF hb.on THEN [lastActive EXCEPT ![u] = clock] ELSE lastActive

Frame(c, t, kind, text) == [conn |-> c, task |-> t, kind |-> kind, text |-> text]

\* conn.WriteMessage succeeds on a socket that is still open
WriteSucceeds(c) == conns[c].open

----------------------------------------------------------------------------
(* queue.processMessage and handlers.ProcessDelayedMessage *)

Running(i) == i \in GorIds /\ gors[i].pc \notin {"done", "killed"}

\* An update that finds a row whatever the table holds
MatchesAlways(row) == TRUE

\* The UPDATE ... WHERE task_id = ? of ProcessDelayedMessage (gorm adds
\* deleted_at IS NULL): the rows it matches
Matches(row) == row.status # "none" /\ ~row.deleted

\* ... and what it sets
Complete(row, result, now) ==
    [row EXCEPT !.status = "completed", !.content = result, !.processed_at = now]

\* A time check that goes straight to the XACK
AfterTimeCheckAcks(g, due) == [g EXCEPT !.pc = "ack"]

\* A time check that never sleeps
AfterTimeCheckNoSleep(g, due) == [g EXCEPT !.pc = "handler"]

\* The time check of processMessage: the goroutine's next position
AfterTimeCheck(g, due) ==
    IF Unix(clock) < due
    THEN [g EXCEPT !.pc = "sleep", !.wake = clock + Seconds(due - Unix(clock))]
    ELSE [g EXCEPT !.pc = "handler"]

\* An XACK that removes nothing from the pending list
XAckLost(e) == pel

\* rdb.XAck(ctx, StreamName, ConsumerGroup, msg.ID)
XAck(e) == pel \ {e}

\* A finished goroutine keeps what it did, not its locals
Finished(g) == [g EXCEPT !.pc = "done", !.wake = 0, !.result = NoText, !.conn = 0]

\* Payload checks that let every entry through
AfterPayloadChecksNone(g, entry) == AfterTimeCheck(g, entry.due)

\* The payload checks of processMessage: an entry without "data" or with
\* undecodable "data" ends the goroutine, any other goes to the time check
AfterPayloadChecks(g, entry) ==
    IF entry.kind # "ok" THEN Finished(g) ELSE AfterTimeCheck(g, entry.due)

\* Payload checks, then the time check. An entry without "data" or with
\* undecodable "data" is acked and dropped.
GorStart(i) ==
    /\ Running(i) /\ gors[i].pc = "start"
    /\ SetGor(i, AfterPayloadChecks(gors[i], EntryOf(i)))
    /\ pel' = IF EntryOf(i).kind # "ok" THEN XAck(gors[i].entry) ELSE pel
    /\ UNCHANGED <<clock, db, resp, stream, lastDelivered, workerUp, clients,
                   conns, drains, offline, frames, crashes, replays, ttl, polls,
                   wsVars, hbVars, listing>>

\* time.Sleep(waitTime) returns
GorWake(i) ==
    /\ Running(i) /\ gors[i].pc = "sleep"
    /\ clock >= gors[i].wake
    /\ SetGor(i, [gors[i] EXCEPT !.pc = "handler", !.wake = 0])
    /\ UNCHANGED <<clock, db, resp, stream, lastDelivered, pel, workerUp,
                   clients, conns, drains, offline, frames, crashes, replays, ttl, polls,
                   wsVars, hbVars, listing>>

\* handler(ctx, &payload) is called: the result text is built and the
\* record updated; a failing update is logged and ignored.
GorHandler(i, dbErr) ==
    LET t == EntryOf(i).task
        result == ResultText(t, clock)
        hit == ~dbErr /\ Matches(db[t])
    IN
    /\ Running(i) /\ gors[i].pc = "handler"
    /\ db' = IF hit THEN [db EXCEPT ![t] = Complete(db[t], result, clock)] ELSE db
    /\ SetGor(i, [gors[i] EXCEPT !.pc = "route", !.result = result,
                                 !.ran = TRUE, !.wrote = hit])
    /\ UNCHANGED <<clock, resp, stream, lastDelivered, pel, workerUp, clients,
                   conns, drains, offline, frames, crashes, replays, ttl, polls,
                   wsVars, hbVars, listing>>

\* if wsManager.IsOnline(payload.UserID) ... else ...
GorRoute(i) ==
    /\ Running(i) /\ gors[i].pc = "route"
    /\ SetGor(i, [gors[i] EXCEPT
                    !.pc = IF IsOnline(EntryOf(i).user) THEN "send" ELSE "store"])
    /\ UNCHANGED <<clock, db, resp, stream, lastDelivered, pel, workerUp,
                   clients, conns, drains, offline, frames, crashes, replays, ttl, polls,
                   wsVars, hbVars, listing>>

\* Manager.SendMessage up to the write: the map lookup; a user that is no
\* longer in the map makes it return nil
SendLookup(g, u) ==
    IF clients[u] = 0
    THEN [g EXCEPT !.pc = "ack", !.outcome = "notsent"]
    ELSE [g EXCEPT !.pc = "write", !.conn = clients[u]]

\* Manager.SendMessage up to the write: the lookup, and for a user that
\* is found m.lastActive[userID] = time.Now()
GorSend(i) ==
    /\ Running(i) /\ gors[i].pc = "send"
    /\ SetGor(i, SendLookup(gors[i], EntryOf(i).user))
    /\ lastActive' = IF clients[EntryOf(i).user] = 0 THEN lastActive
                     ELSE Touch(EntryOf(i).user)
    /\ UNCHANGED <<clock, db, resp, stream, lastDelivered, pel, workerUp,
                   clients, conns, drains, offline, frames, crashes, replays,
                   ttl, polls, wsVars, hb, listing>>

\* A push that is followed by the offline store whatever the write returned
AfterWriteAlwaysStores(g, ok) ==
    IF ok THEN [g EXCEPT !.pc = "store", !.outcome = "pushed"]
    ELSE [g EXCEPT !.pc = "store"]

\* if err := wsManager.SendMessage(...); err != nil { return StoreOffline... }
AfterWrite(g, ok) ==
    IF ok THEN [g EXCEPT !.pc = "ack", !.outcome = "pushed"]
    ELSE [g EXCEPT !.pc = "store"]

\* conn.WriteMessage(websocket.TextMessage, message); on an error the
\* handler falls back to the offline store
GorWrite(i) ==
    LET g == gors[i] IN
    /\ Running(i) /\ g.pc = "write"
    /\ SetGor(i, AfterWrite(g, WriteSucceeds(g.conn)))
    /\ IF WriteSucceeds(g.conn)
       THEN frames' = frames \cup
                    {Frame(g.conn, EntryOf(i).task, "realtime", g.result)}
       ELSE UNCHANGED frames
    /\ UNCHANGED <<clock, db, resp, stream, lastDelivered, pel, workerUp,
                   clients, conns, drains, offline, crashes, replays, ttl, polls,
                   wsVars, hbVars, listing>>

\* queue.StoreOfflineMessage: SET offline:result:<task> <message> ...
StoreOfflineMessage(t, message) == [offline EXCEPT ![t] = message]

\* A SET without expiry
StoreOfflineNoExpiry(t) == ttl

\* ... with the expiry 1*time.Hour
StoreOfflineExpiry(t) == [ttl EXCEPT ![t] = OfflineTTLSeconds]

\* queue.GetOfflineMessage: GET; redis.Nil (an error) when the key is absent
GetOfflineMessage(t) == [found |-> offline[t] # NoText, val |-> offline[t]]

\* A DEL that removes nothing
DeleteOfflineKeeps(t) == offline

\* queue.DeleteOfflineMessage: DEL offline:result:<task>
DeleteOfflineMessage(t) == [offline EXCEPT ![t] = NoText]

DeleteOfflineExpiry(t) == [ttl EXCEPT ![t] = 0]

\* The handler stores the result offline.
\* storeErr: the SET fails, and the handler returns the error.
GorStore(i, storeErr) ==
    LET g == gors[i]
        t == EntryOf(i).task
    IN
    /\ Running(i) /\ g.pc = "store"
    /\ IF storeErr
       THEN /\ SetGor(i, [g EXCEPT !.pc = "ack", !.outcome = "storefail",
                                   !.err = TRUE])
            /\ UNCHANGED <<offline, ttl>>
       ELSE /\ offline' = StoreOfflineMessage(t, g.result)
            /\ ttl' = StoreOfflineExpiry(t)
            /\ SetGor(i, [g EXCEPT !.pc = "ack", !.outcome = "stored"])
    /\ UNCHANGED <<clock, db, resp, stream, lastDelivered, pel, workerUp,
                   clients, conns, drains, frames, crashes, replays, polls,
                   wsVars, hbVars, listing>>

\* The handler has returned (an error is only logged): XACK
GorAck(i) ==
    /\ Running(i) /\ gors[i].pc = "ack"
    /\ pel' = XAck(gors[i].entry)
    /\ SetGor(i, Finished(gors[i]))
    /\ UNCHANGED <<clock, db, resp, stream, lastDelivered, workerUp, clients,
                   conns, drains, offline, frames, crashes, replays, ttl, polls,
                   wsVars, hbVars, listing>>

----------------------------------------------------------------------------
(* GET /ws: handlers.HandleWebSocket *)

FreeConns(C) == {c \in C : conns[c].user = 0}

\* Manager.Unregister(userID): closes and removes whatever connection the
\* map holds for the user
Unregister(u) ==
    [clients |-> [clients EXCEPT ![u] = 0],
     conns |-> IF clients[u] = 0 THEN conns
               ELSE [conns EXCEPT ![clients[u]].open = FALSE],
     lastActive |-> IF clients[u] = 0 THEN lastActive
                    ELSE [lastActive EXCEPT ![u] = NullTime]]

\* Upgrade, Manager.Register (the map entry is overwritten), and the
\* drain goroutine is started; the handler then sits in its read loop.
Connect(u, C) ==
    /\ workerUp
    /\ FreeConns(C) # {}
    /\ LET c == CHOOSE x \in FreeConns(C) : \A y \in FreeConns(C) : x <= y IN
         /\ conns' = [conns EXCEPT ![c] = [user |-> u, open |-> TRUE, handler |-> TRUE,
                                           silent |-> FALSE]]
         /\ clients' = [clients EXCEPT ![u] = c]
         /\ drains' = [drains EXCEPT ![c] = [NoDrain EXCEPT !.pc = "keys"]]
    /\ lastActive' = Touch(u)
    /\ UNCHANGED <<clock, db, resp, stream, lastDelivered, pel, workerUp, gors,
                   offline, frames, crashes, replays, ttl, polls,
                   wsVars, hb, listing>>

\* The peer goes away or the network breaks: the socket is dead, the
\* registry does not know yet.
SocketDrop(c) ==
    /\ conns[c].open /\ conns[c].handler /\ ~conns[c].silent
    /\ conns' = [conns EXCEPT ![c].open = FALSE]
    /\ UNCHANGED <<clock, db, resp, stream, lastDelivered, pel, workerUp, gors,
                   clients, drains, offline, frames, crashes, replays, ttl, polls,
                   wsVars, hbVars, listing>>

\* conn.ReadMessage fails, the read loop ends, the deferred
\* Manager.Unregister(userID) runs.
HandlerExit(c) ==
    /\ conns[c].handler /\ ~conns[c].open
    /\ LET r == Unregister(conns[c].user) IN
         /\ conns' = [r.conns EXCEPT ![c].handler = FALSE]
         /\ clients' = r.clients
         /\ lastActive' = r.lastActive
    /\ UNCHANGED <<clock, db, resp, stream, lastDelivered, pel, workerUp, gors,
                   drains, offline, frames, crashes, replays, ttl, polls,
                   wsVars, hb, listing>>

----------------------------------------------------------------------------
(* handlers.pushOfflineMessages *)

\* queue.GetUserOfflineMessages(userID): KEYS offline:result:*
GetUserOfflineMessages(u) == {t \in Tasks : offline[t] # NoText}

Draining(c) == drains[c].pc \notin {"none", "done"}

DrainKeys(c) ==
    /\ drains[c].pc = "keys"
    /\ drains' = [drains EXCEPT ![c] =
                    [@ EXCEPT !.pc = "loop",
                              !.keys = GetUserOfflineMessages(conns[c].user)]]
    /\ UNCHANGED <<clock, db, resp, stream, lastDelivered, pel, workerUp, gors,
                   clients, conns, offline, frames, crashes, replays, ttl, polls,
                   wsVars, hbVars, listing>>

\* Next key of the loop: GET; a key that is gone, or a GET that fails
\* (getErr), is skipped
DrainGet(c, getErr) ==
    /\ drains[c].pc = "loop"
    /\ IF drains[c].keys = {}
       THEN /\ ~getErr
            /\ drains' = [drains EXCEPT ![c] = [NoDrain EXCEPT !.pc = "done"]]
       ELSE \E t \in drains[c].keys :
              drains' = [drains EXCEPT ![c] =
                  IF getErr \/ ~GetOfflineMessage(t).found
                  THEN [@ EXCEPT !.keys = @ \ {t}]
                  ELSE [@ EXCEPT !.pc = "write", !.keys = @ \ {t},
                                 !.task = t, !.val = GetOfflineMessage(t).val]]
    /\ UNCHANGED <<clock, db, resp, stream, lastDelivered, pel, workerUp, gors,
                   clients, conns, offline, frames, crashes, replays, ttl, polls,
                   wsVars, hbVars, listing>>

\* A drain that deletes the key whatever the write returned
AfterDrainWriteAlwaysDeletes(d, ok) == [d EXCEPT !.pc = "delete", !.val = NoText]

\* if err := conn.WriteMessage(...); err != nil { continue }
AfterDrainWrite(d, ok) ==
    IF ok THEN [d EXCEPT !.pc = "delete", !.val = NoText]
    ELSE [d EXCEPT !.pc = "loop", !.task = 0, !.val = NoText]

\* conn.WriteMessage of the "offline" frame; on an error the key is kept
DrainWrite(c) ==
    LET d == drains[c] IN
    /\ d.pc = "write"
    /\ drains' = [drains EXCEPT ![c] = AfterDrainWrite(d, WriteSucceeds(c))]
    /\ IF WriteSucceeds(c)
       THEN frames' = frames \cup {Frame(c, d.task, "offline", d.val)}
       ELSE UNCHANGED frames
    /\ UNCHANGED <<clock, db, resp, stream, lastDelivered, pel, workerUp, gors,
                   clients, conns, offline, crashes, replays, ttl, polls,
                   wsVars, hbVars, listing>>

\* queue.DeleteOfflineMessage(taskID)
DrainDelete(c) ==
    LET d == drains[c] IN
    /\ d.pc = "delete"
    /\ offline' = DeleteOfflineMessage(d.task)
    /\ ttl' = DeleteOfflineExpiry(d.task)
    /\ drains' = [drains EXCEPT ![c] = [d EXCEPT !.pc = "loop", !.task = 0]]
    /\ UNCHANGED <<clock, db, resp, stream, lastDelivered, pel, workerUp, gors,
                   clients, conns, frames, crashes, replays, polls,
                   wsVars, hbVars, listing>>

----------------------------------------------------------------------------
(* scheduler.cleanupOldMessages *)

\* A sweep that does not look at the status
SweptAnyStatus(row, cutoff) ==
    IF row.status # "none" /\ row.created_at < cutoff /\ ~row.deleted
    THEN [row EXCEPT !.deleted = TRUE]
    ELSE row

\* A sweep that takes every terminal record
SweptTerminal(row, cutoff) ==
    IF /\ \/ row.status = "completed" /\ row.processed_at < cutoff
          \/ row.status = "failed" /\ row.created_at < cutoff
       /\ ~row.deleted
    THEN [row EXCEPT !.deleted = TRUE]
    ELSE row

\* A sweep whose cutoff is inclusive
SweptInclusive(row, cutoff) ==
    IF row.status = "completed" /\ row.processed_at <= cutoff /\ ~row.deleted
    THEN [row EXCEPT !.deleted = TRUE]
    ELSE row

\* DB.Where("status = ? AND processed_at < ?", "completed", cutoff)
\*   .Delete(&models.Message{}): Message has a DeletedAt field, so gorm
\* sets deleted_at on the rows that are not deleted yet
Swept(row, cutoff) ==
    IF row.status = "completed" /\ row.processed_at < cutoff /\ ~row.deleted
    THEN [row EXCEPT !.deleted = TRUE]
    ELSE row

cleanupOldMessages ==
    LET cutoff == clock - Days(EffectiveCleanupDays(AppConfig.CleanupDays)) IN
    /\ workerUp
    /\ db' = [t \in Tasks |-> Swept(db[t], cutoff)]
    /\ UNCHANGED <<clock, resp, stream, lastDelivered, pel, workerUp, gors,
                   clients, conns, drains, offline, frames, crashes, replays, ttl, polls,
                   wsVars, hbVars, listing>>

\* CleanupFailedMessages: failedCleanupDays <= 0 is replaced by the default
EffectiveFailedCleanupDays(configured) ==
    IF configured <= 0 THEN DefaultFailedCleanupDays ELSE configured

\* DB.Where("status = ? AND created_at < ?", "failed", cutoff)
\*   .Delete(&models.Message{})
SweptFailed(row, cutoff) ==
    IF row.status = "failed" /\ row.created_at < cutoff /\ ~row.deleted
    THEN [row EXCEPT !.deleted = TRUE]
    ELSE row

CleanupFailedMessages ==
    LET cutoff == clock - Days(EffectiveFailedCleanupDays(AppConfig.FailedCleanupDays)) IN
    /\ workerUp
    /\ db' = [t \in Tasks |-> SweptFailed(db[t], cutoff)]
    /\ UNCHANGED <<clock, resp, stream, lastDelivered, pel, workerUp, gors,
                   clients, conns, drains, offline, frames, crashes, replays,
                   ttl, polls,
                   wsVars, hbVars, listing>>

----------------------------------------------------------------------------
(* Process crash and restart; a broker that hands an entry out again *)

Killed(g) ==
    IF g.pc = "done" THEN g
    ELSE [g EXCEPT !.pc = "killed", !.wake = 0, !.result = NoText, !.conn = 0]

\* The process dies: its goroutines, sockets and registry are gone; the
\* database, the stream with its pending list and the offline keys stay.
Crash ==
    /\ workerUp
    /\ crashes < MaxCrashes
    /\ crashes' = crashes + 1
    /\ workerUp' = FALSE
    /\ gors' = [i \in GorIds |-> Killed(gors[i])]
    /\ clients' = [u \in Users |-> 0]
    /\ conns' = [c \in ConnIds |->
                   IF conns[c].user = 0 THEN conns[c]
                   ELSE [conns[c] EXCEPT !.open = FALSE, !.handler = FALSE]]
    /\ drains' = [c \in ConnIds |->
                    IF drains[c].pc = "none" THEN NoDrain
                    ELSE [NoDrain EXCEPT !.pc = "done"]]
    /\ polls' = [p \in 1..Len(polls) |->
                   IF polls[p].pc = "done" THEN polls[p]
                   ELSE [polls[p] EXCEPT !.pc = "killed"]]
    /\ lastActive' = [u \in Users |-> NullTime]
    /\ UNCHANGED <<clock, db, resp, stream, lastDelivered, pel, offline, frames,
                   replays, ttl, wsVars, hb, listing>>

\* main: InitQueue (the group exists: BUSYGROUP is absorbed), StartWorker
Restart ==
    /\ ~workerUp
    /\ workerUp' = TRUE
    /\ UNCHANGED <<clock, db, resp, stream, lastDelivered, pel, gors, clients,
                   conns, drains, offline, frames, crashes, replays, ttl, polls,
                   wsVars, hbVars, listing>>

\* The broker hands an entry it has delivered before to the consumer again
\* (the group's cursor was moved back, or the entry was replayed).
Redeliver(e) ==
    /\ workerUp
    /\ replays < MaxReplays
    /\ e \in 1..lastDelivered
    /\ replays' = replays + 1
    /\ pel' = pel \cup {e}
    /\ gors' = Append(gors, NewGor(e))
    /\ UNCHANGED <<clock, db, resp, stream, lastDelivered, workerUp, clients,
                   conns, drains, offline, frames, crashes, ttl, polls,
                   wsVars, hbVars, listing>>

----------------------------------------------------------------------------
(* Specifications *)

Ingest(U) ==
    \E u \in U, bad, createErr, enqueueErr, updateErr \in BOOLEAN :
        SendMessage(u, bad, createErr, enqueueErr, updateErr)

Foreign == \E k \in {"nodata", "badjson"} : ForeignAdd(k)

GorStep(i) ==
    \/ GorStart(i)
    \/ GorWake(i)
    \/ \E dbErr \in BOOLEAN : GorHandler(i, dbErr)
    \/ GorRoute(i)
    \/ GorSend(i)
    \/ GorWrite(i)
    \/ \E storeErr \in BOOLEAN : GorStore(i, storeErr)
    \/ GorAck(i)

\* The steps of the processMessage goroutines
Worker ==
    \/ \E i \in GorIds : GorStart(i)
    \/ \E i \in GorIds : GorWake(i)
    \/ \E i \in GorIds, dbErr \in BOOLEAN : GorHandler(i, dbErr)
    \/ \E i \in GorIds : GorRoute(i)
    \/ \E i \in GorIds : GorSend(i)
    \/ \E i \in GorIds : GorWrite(i)
    \/ \E i \in GorIds, storeErr \in BOOLEAN : GorStore(i, storeErr)
    \/ \E i \in GorIds : GorAck(i)

Sockets(U, C) ==
    \/ \E u \in U : Connect(u, C)
    \/ \E c \in C : SocketDrop(c)
    \/ \E c \in C : HandlerExit(c)

Drain ==
    \/ \E c \in ConnIds : DrainKeys(c)
    \/ \E c \in ConnIds, getErr \in BOOLEAN : DrainGet(c, getErr)
    \/ \E c \in ConnIds : DrainWrite(c)
    \/ \E c \in ConnIds : DrainDelete(c)

\* The pipeline for one recipient with one socket, no process crash
Next ==
    \/ Tick
    \/ Ingest({1})
    \/ WorkerRead
    \/ Worker
    \/ Sockets({1}, {1})

Spec == Init /\ [][Next]_vars

----------------------------------------------------------------------------
(* Helpers of the properties *)

Entries == 1..Len(stream)

\* The goroutines the entry was handed to
GorsOf(e) == {i \in GorIds : gors[i].entry = e}

\* The entries carrying the task
EnvelopesOf(t) == {e \in Entries : stream[e].kind = "ok" /\ stream[e].task = t}

Terminal(row) == row.status \in {"completed", "failed"}

----------------------------------------------------------------------------
(* C10 *)

\* C10 as stated: whenever the insert succeeded and the enqueue failed, the
\* record is FAILED, the caller got 500 without task_id and the stream holds
\* no envelope of the task; when the insert failed, nothing is enqueued and
\* the caller got 500.
C10_CompensationAlwaysMarksFailed ==
    \A t \in 1..Len(resp) :
        /\ resp[t].failed \in {"enqueue", "compensate"} =>
              /\ db[t].status = "failed"
              /\ resp[t].code = 500 /\ resp[t].task = 0
              /\ EnvelopesOf(t) = {}
        /\ resp[t].failed = "create" =>
              /\ db[t] = NoRow
              /\ resp[t].code = 500 /\ resp[t].task = 0
              /\ EnvelopesOf(t) = {}

\* C10 (amended): as above, but the record is FAILED only when the
\* compensating update itself succeeds; when that update fails too the
\* record stays PENDING (still 500, no task_id, no envelope).
C10_Compensation ==
    \A t \in 1..Len(resp) :
        /\ resp[t].failed = "enqueue" =>
              /\ db[t].status = "failed"
              /\ resp[t].code = 500 /\ resp[t].task = 0
              /\ EnvelopesOf(t) = {}
        /\ resp[t].failed = "compensate" =>
              /\ db[t].status = "pending"
              /\ resp[t].code = 500 /\ resp[t].task = 0
              /\ EnvelopesOf(t) = {}
        /\ resp[t].failed = "create" =>
              /\ db[t] = NoRow
              /\ resp[t].code = 500 /\ resp[t].task = 0
              /\ EnvelopesOf(t) = {}

\* An enqueue failure was compensated while another task went through the
\* pipeline.
C10_Witness ==
    \E t \in 1..Len(resp) :
        /\ resp[t].failed = "enqueue"
        /\ db[t].status = "failed"
        /\ \E i \in GorIds : gors[i].pc = "done" /\ gors[i].ran

----------------------------------------------------------------------------
(* C4 *)

\* The routing of a goroutine is over
Routed(i) == gors[i].ran /\ gors[i].pc \in {"ack", "done"}

\* C4: when the routing of a processed envelope finishes, the result was
\* written to a connection of the recipient or stored in the offline store
\* (a failing offline store aside), whatever the registry did meanwhile.
C4_NoResultDropped ==
    \A i \in GorIds :
        Routed(i) => gors[i].outcome \in {"pushed", "stored", "storefail"}

----------------------------------------------------------------------------
(* C9 *)

\* C9: when the handler returned an error, the record is FAILED, no frame of
\* the task was written, and the entry is acked.
C9_ProcessorErrorMarksFailed ==
    \A i \in GorIds :
        (gors[i].pc = "done" /\ gors[i].err) =>
            /\ db[EntryOf(i).task].status = "failed"
            /\ ~\E f \in frames : f.task = EntryOf(i).task
            /\ gors[i].entry \notin pel

----------------------------------------------------------------------------
(* C7 *)

\* The due time of the task's envelope
DueOf(t) == stream[CHOOSE e \in EnvelopesOf(t) : TRUE].due

----------------------------------------------------------------------------
(* C6 *)

\* The handler invocations for the entry
Invocations(e) == Cardinality({i \in GorsOf(e) : gors[i].ran})

\* Every delivered entry was handed to exactly one processing task, no
\* other entry to any; the handler ran at most once per entry, and exactly
\* once for a well-formed entry that is acked.
ExactlyOnce ==
    \A e \in Entries :
        /\ Cardinality(GorsOf(e)) = (IF e <= lastDelivered THEN 1 ELSE 0)
        /\ Invocations(e) <= 1
        /\ (e <= lastDelivered /\ e \notin pel /\ stream[e].kind = "ok") =>
              Invocations(e) = 1

----------------------------------------------------------------------------
(* The pipeline with undecodable entries, under fair scheduling: the Go *)
(* scheduler runs every runnable goroutine, the worker loop keeps reading, *)
(* and time passes.                                                        *)

MaxGors == MaxAttempts + MaxForeign + MaxReplays

\* Requests and foreign entries so far
Load == Len(resp) + Cardinality({e \in 1..Len(stream) : stream[e].kind # "ok"})

NextFair ==
    \/ Tick
    \/ Load < MaxLoad /\ Ingest({1})
    \/ Load < MaxLoad /\ Foreign
    \/ WorkerRead
    \/ Worker
    \/ Sockets({1}, {1})

Fairness ==
    /\ WF_vars(Tick)
    /\ WF_vars(WorkerRead)
    /\ \A i \in 1..MaxGors : WF_vars(GorStep(i))

FairSpec == Init /\ [][NextFair]_vars /\ Fairness

----------------------------------------------------------------------------
(* C8 *)

\* C8: every entry handed to a processing task is eventually acked.
C8_EventuallyAcked ==
    \A e \in 1..MaxLoad : (e \in pel) ~> (e \notin pel)

\* An entry was acked on an error path: the update failed, then the offline
\* store failed and the handler returned the error.
C8_Witness ==
    \E i \in GorIds :
        /\ gors[i].pc = "done" /\ gors[i].err /\ ~gors[i].wrote
        /\ gors[i].entry \notin pel

----------------------------------------------------------------------------
(* C6, under fair scheduling *)

\* C6: without broker failure or crash every enqueued envelope has its
\* handler invoked exactly once: no entry is handed to two processing tasks,
\* and every envelope in the stream is eventually handed to the handler.
C6_ExactlyOnce ==
    /\ []ExactlyOnce
    /\ \A e \in 1..MaxLoad :
          (e \in Entries /\ stream[e].kind = "ok") ~> (Invocations(e) = 1)

\* An envelope went through: delivered once, handler run once, acked.
C6_Witness ==
    \E e \in Entries :
        /\ stream[e].kind = "ok"
        /\ e \notin pel
        /\ Cardinality(GorsOf(e)) = 1
        /\ Invocations(e) = 1

----------------------------------------------------------------------------
(* The pipeline for two recipients with the reconnect drain *)

NextDrain ==
    \/ Tick
    \/ Load < MaxLoad /\ Ingest(Users)
    \/ WorkerRead
    \/ Worker
    \/ Sockets(Users, {1})
    \/ Drain

SpecDrain == Init /\ [][NextDrain]_vars

----------------------------------------------------------------------------
(* C5 *)

\* C5: the drain of a connection writes only results of tasks addressed to
\* the connection's user, and deletes only such offline keys.
C5_DrainOwnResultsOnly ==
    \A c \in ConnIds :
        /\ \A f \in frames :
              (f.conn = c /\ f.kind = "offline") => db[f.task].user = conns[c].user
        /\ drains[c].pc = "delete" => db[drains[c].task].user = conns[c].user

----------------------------------------------------------------------------
(* The pipeline with a broker that hands entries out again, and the sweep *)

NextRedeliver ==
    \/ Tick
    \/ Load < MaxLoad /\ Ingest({1})
    \/ WorkerRead
    \/ Worker
    \/ Sockets({1}, {1})
    \/ \E e \in Entries : Redeliver(e)
    \/ cleanupOldMessages

SpecRedeliver == Init /\ [][NextRedeliver]_vars

----------------------------------------------------------------------------
(* C1 *)

\* C1: once a record is COMPLETED or FAILED, no step changes its status,
\* its content or its processed_at.
C1_TerminalRecordsFrozen ==
    [][\A t \in Tasks :
          Terminal(db[t]) =>
              /\ db'[t].status = db[t].status
              /\ db'[t].content = db[t].content
              /\ db'[t].processed_at = db[t].processed_at]_vars

----------------------------------------------------------------------------
(* C2 *)

\* C2: a goroutine that runs the handler for an envelope whose record is
\* already COMPLETED leaves the record as it is.
C2_CompleteIdempotent ==
    [][\A i \in GorIds :
          (/\ gors[i].pc = "handler"
           /\ gors'[i].pc = "route"
           /\ db[EntryOf(i).task].status = "completed")
          => db'[EntryOf(i).task] = db[EntryOf(i).task]]_vars

----------------------------------------------------------------------------
(* The pipeline with process crashes, under fair scheduling *)

NextCrash ==
    \/ Tick
    \/ Load < MaxLoad /\ Ingest({1})
    \/ WorkerRead
    \/ Worker
    \/ Sockets({1}, {1})
    \/ Crash
    \/ Restart

FairSpecCrash ==
    Init /\ [][NextCrash]_vars /\ Fairness /\ WF_vars(Restart)

----------------------------------------------------------------------------
(* C3 *)

\* C3: an entry that is pending when the process dies is, after the restart,
\* handed to a processing task again.
C3_RedeliveredAfterCrash ==
    \A e \in 1..MaxLoad :
        (e \in pel /\ ~workerUp /\ stream[e].kind = "ok")
            ~> (\E i \in GorsOf(e) : Running(i))

----------------------------------------------------------------------------
(* GET /query-result: handlers.QueryResult *)

\* What QueryResult answers for the task from the offline store as it is
QueryResponse(t) ==
    IF GetOfflineMessage(t).found
    THEN [status |-> "completed", result |-> GetOfflineMessage(t).val]
    ELSE [status |-> "pending", result |-> NoText]

\* One request: the task asked for, the handler's position, the value its
\* GET returned, and the status it answered
Poll(t, pc, val, status) == [task |-> t, pc |-> pc, val |-> val, status |-> status]

\* A GET whose value is given out without looking whether the key exists
AfterQueryGetBlind(t, r) == Poll(t, "delete", r.val, "none")

\* result, err := queue.GetOfflineMessage(taskID); if err != nil: pending
AfterQueryGet(t, r) ==
    IF r.found THEN Poll(t, "delete", r.val, "none")
    ELSE Poll(t, "done", NoText, "pending")

\* The request arrives and the handler reads the key. getErr: the GET fails.
QueryGet(t, getErr) ==
    /\ workerUp
    /\ Len(polls) < MaxPolls
    /\ polls' = Append(polls,
                  IF getErr THEN Poll(t, "done", NoText, "pending")
                  ELSE AfterQueryGet(t, GetOfflineMessage(t)))
    /\ UNCHANGED <<clock, db, resp, stream, lastDelivered, pel, workerUp, gors,
                   clients, conns, drains, offline, frames, crashes, replays,
                   ttl,
                   wsVars, hbVars, listing>>

\* queue.DeleteOfflineMessage(taskID), then the "completed" answer
QueryDelete(p) ==
    /\ p \in 1..Len(polls) /\ polls[p].pc = "delete"
    /\ offline' = DeleteOfflineMessage(polls[p].task)
    /\ ttl' = DeleteOfflineExpiry(polls[p].task)
    /\ polls' = [polls EXCEPT ![p] = [@ EXCEPT !.pc = "done", !.status = "completed"]]
    /\ UNCHANGED <<clock, db, resp, stream, lastDelivered, pel, workerUp, gors,
                   clients, conns, drains, frames, crashes, replays,
                   wsVars, hbVars, listing>>

\* Polls for the tasks of T
Query(T) ==
    \/ \E t \in T, getErr \in BOOLEAN : QueryGet(t, getErr)
    \/ \E p \in 1..Len(polls) : QueryDelete(p)

\* The steps of processMessage for a recipient that never connects
WorkerOffline ==
    \/ \E i \in GorIds : GorStart(i)
    \/ \E i \in GorIds : GorWake(i)
    \/ \E i \in GorIds, dbErr \in BOOLEAN : GorHandler(i, dbErr)
    \/ \E i \in GorIds : GorRoute(i)
    \/ \E i \in GorIds, storeErr \in BOOLEAN : GorStore(i, storeErr)
    \/ \E i \in GorIds : GorAck(i)

\* The pipeline for one request of an offline recipient that polls, with a
\* broker that hands entries out again
NextPoll ==
    \/ Tick
    \/ resp = <<>> /\ Ingest({1})
    \/ WorkerRead
    \/ WorkerOffline
    \/ \E e \in Entries : Redeliver(e)
    \/ Query(1..Len(resp))

SpecPoll == Init /\ [][NextPoll]_vars

\* The pipeline for two recipients with the reconnect drain and polling
NextReaders ==
    \/ NextDrain
    \/ Query(Tasks)

SpecReaders == Init /\ [][NextReaders]_vars

----------------------------------------------------------------------------
(* C13 *)

----------------------------------------------------------------------------
(* C14 *)

\* The readers that delivered the task's offline result: polls that
\* answered completed, and connections that got its "offline" frame
Delivered(t) ==
    Cardinality({p \in 1..Len(polls) :
                    polls[p].task = t /\ polls[p].status = "completed"})
    + Cardinality({f \in frames : f.task = t /\ f.kind = "offline"})

\* C14: the offline result of a task (stored once) is delivered by at most
\* one reader, poll or drain.
C14_OfflineSlotReadOnce == \A t \in Tasks : Delivered(t) <= 1

----------------------------------------------------------------------------
(* C11 *)

\* C11: when the live push of a task's result was accepted, no offline
\* value is written for the task (the goroutine goes on to the ack, never
\* to the store), and a poll for the task answers pending.
C11_NoDoubleDelivery ==
    /\ \A i \in GorIds :
          gors[i].outcome = "pushed" => gors[i].pc \in {"ack", "done", "killed"}
    /\ \A t \in Tasks :
          (\E f \in frames : f.task = t /\ f.kind = "realtime") =>
              /\ offline[t] = NoText
              /\ ttl[t] = 0
              /\ QueryResponse(t).status = "pending"

\* A result was pushed live and its entry acked.
C11_Witness ==
    \E i \in GorIds :
        /\ gors[i].pc = "done" /\ gors[i].outcome = "pushed"
        /\ \E f \in frames : f.task = EntryOf(i).task /\ f.kind = "realtime"

----------------------------------------------------------------------------
(* C12 *)

\* The goroutine took the offline branch of the routing: it never looked a
\* connection up
OfflineBranch(i) == gors[i].ran /\ gors[i].conn = 0

\* C12: when the recipient is not registered at the routing check, the
\* goroutine goes to the offline store; when that store returns, the key of
\* the task (and no other key) holds the result with an expiry of at most
\* one hour, and no frame of the task was written.
C12_OfflineWhenNotLive ==
    /\ [][\A i \in GorIds :
            (gors[i].pc = "route" /\ gors'[i].pc # "route"
             /\ ~IsOnline(EntryOf(i).user)) => gors'[i].pc = "store"]_vars
    /\ [][\A i \in GorIds :
            (gors[i].pc = "store" /\ gors'[i].pc = "ack"
             /\ gors'[i].outcome = "stored") =>
                \A t \in Tasks \ {EntryOf(i).task} :
                    offline'[t] = offline[t] /\ ttl'[t] = ttl[t]]_vars
    /\ [](\A i \in GorIds :
            (OfflineBranch(i) /\ gors[i].pc = "ack"
             /\ gors[i].outcome = "stored") =>
                /\ offline[EntryOf(i).task] = gors[i].result
                /\ offline[EntryOf(i).task].task = EntryOf(i).task
                /\ ttl[EntryOf(i).task] \in 1..OfflineTTLSeconds
                /\ ~\E f \in frames : f.task = EntryOf(i).task)

\* A result was stored for a recipient that was not registered.
C12_Witness ==
    \E i \in GorIds :
        /\ OfflineBranch(i) /\ gors[i].pc = "ack" /\ gors[i].outcome = "stored"
        /\ offline[EntryOf(i).task] # NoText

----------------------------------------------------------------------------
(* C15 *)

\* The connection got the "offline" frame of the task
OfflineFrameOn(c, t) ==
    \E f \in frames : f.conn = c /\ f.task = t /\ f.kind = "offline"

----------------------------------------------------------------------------
(* The pipeline for an offline recipient with both retention sweeps *)

NextSweep ==
    \/ Tick
    \/ Ingest({1})
    \/ WorkerRead
    \/ WorkerOffline
    \/ cleanupOldMessages
    \/ CleanupFailedMessages

SpecSweep == Init /\ [][NextSweep]_vars

\* The row is in the table and visible
Live(row) == row.status # "none" /\ ~row.deleted

----------------------------------------------------------------------------
(* C16 *)

\* C16: no step removes a record that is PENDING: it stays in the table and
\* is not marked deleted.
C16_SweepKeepsPending ==
    [][\A t \in Tasks :
          (Live(db[t]) /\ db[t].status = "pending") => Live(db'[t])]_vars

\* The sweeps have removed a record while a PENDING record older than both
\* retention windows is still there.
C16_Witness ==
    \E t1, t2 \in Tasks :
        /\ Live(db[t1]) /\ db[t1].status = "pending"
        /\ db[t1].created_at < clock - Days(AppConfig.CleanupDays)
        /\ db[t1].created_at < clock - Days(AppConfig.FailedCleanupDays)
        /\ db[t2].deleted

----------------------------------------------------------------------------
(* C17 *)

\* C17: a step of the scheduled sweep removes a record iff it is COMPLETED
\* with processed_at strictly before now - cleanup_days (30 when the
\* configured value is <= 0), and changes nothing else of any record.
C17_SweepCutoff ==
    [][cleanupOldMessages =>
          LET days == IF AppConfig.CleanupDays <= 0 THEN 30
                      ELSE AppConfig.CleanupDays
          IN
          /\ \A n \in -1..1 : EffectiveCleanupDays(n) = IF n <= 0 THEN 30 ELSE n
          /\ \A t \in Tasks :
                /\ (Live(db[t]) /\ ~Live(db'[t])) <=>
                      (/\ Live(db[t]) /\ db[t].status = "completed"
                       /\ db[t].processed_at < clock - Days(days))
                /\ [db'[t] EXCEPT !.deleted = FALSE]
                      = [db[t] EXCEPT !.deleted = FALSE]]_vars

\* The sweep has removed a COMPLETED record and kept another COMPLETED
\* record whose processed_at is the cutoff or later.
C17_Witness ==
    \E t1, t2 \in Tasks :
        /\ db[t1].status = "completed" /\ db[t1].deleted
        /\ Live(db[t2]) /\ db[t2].status = "completed"
        /\ db[t2].processed_at > db[t1].processed_at

----------------------------------------------------------------------------
(* C18 *)

\* C18: a record the sweep removed leaves no row behind: the table holds
\* no row marked deleted.
C18_SweepHardDeletes == \A t \in Tasks : ~db[t].deleted

----------------------------------------------------------------------------
(* The pipeline for two recipients with several sockets each *)

NextConns ==
    \/ Tick
    \/ Load < MaxLoad /\ Ingest(Users)
    \/ WorkerRead
    \/ Worker
    \/ Sockets(Users, ConnIds)
    \/ Drain

SpecConns == Init /\ [][NextConns]_vars

----------------------------------------------------------------------------
(* C19 *)

\* C19: a recipient with an open connection is live, also after another of
\* its connections was closed; and a live recipient has a connection whose
\* handler has not unregistered yet.
C19_LiveIffConnectionOpen ==
    \A u \in Users :
        /\ (\E c \in ConnIds : conns[c].user = u /\ conns[c].open) => IsOnline(u)
        /\ IsOnline(u) => \E c \in ConnIds : conns[c].user = u /\ conns[c].handler

----------------------------------------------------------------------------
(* ws.Manager with several clients per user (Register, Unregister) *)

WsClientIds == 1..Len(wsClients)

\* &Client{UserID, Conn, Send: make(chan []byte, 256)}
\* buf is the content of the Send channel; acc lists the payloads the channel
\* took, in the order it took them; out lists what WritePump wrote to the
\* socket; pump tells whether WritePump is still running
NewClient(u) ==
    [user |-> u, sendClosed |-> FALSE, buf |-> <<>>, acc |-> <<>>,
     out |-> <<>>, pump |-> TRUE]

\* Manager.Register: the client is appended to the user's slice
WsRegister(u) ==
    /\ Len(wsClients) < MaxWsClients
    /\ wsClients' = Append(wsClients, NewClient(u))
    /\ registry' = [registry EXCEPT ![u] = Append(@, Len(wsClients) + 1)]
    /\ UNCHANGED <<clock, db, resp, stream, lastDelivered, pel, workerUp, gors,
                   clients, conns, drains, offline, frames, crashes, replays,
                   ttl, polls, wsPanics, wsSends, hbVars, listing>>

\* The slice without its first element equal to k
RECURSIVE Without(_, _)
Without(q, k) ==
    IF q = <<>> THEN <<>>
    ELSE IF Head(q) = k THEN Tail(q)
    ELSE <<Head(q)>> \o Without(Tail(q), k)

\* Manager.Unregister(client): the client is taken out of the user's slice,
\* then close(client.Send); closing a closed channel panics (the deferred
\* Unlock still runs).
WsUnregister(k) ==
    /\ k \in WsClientIds
    /\ wsPanics < MaxWsPanics
    /\ registry' = [registry EXCEPT ![wsClients[k].user] = Without(@, k)]
    /\ IF wsClients[k].sendClosed
       THEN /\ wsPanics' = wsPanics + 1
            /\ UNCHANGED wsClients
       ELSE /\ wsClients' = [wsClients EXCEPT ![k].sendClosed = TRUE]
            /\ UNCHANGED wsPanics
    /\ UNCHANGED <<clock, db, resp, stream, lastDelivered, pel, workerUp, gors,
                   clients, conns, drains, offline, frames, crashes, replays,
                   ttl, polls, wsSends, hbVars, listing>>

NextWs ==
    \/ \E u \in Users : WsRegister(u)
    \/ \E k \in WsClientIds : WsUnregister(k)

SpecWs == Init /\ [][NextWs]_vars

----------------------------------------------------------------------------
(* C20 *)

\* C20: an Unregister call for a client that was unregistered before
\* changes nothing and does not fail (the channel is not closed again).
C20_UnregisterIdempotent ==
    [][\A k \in WsClientIds :
          (WsUnregister(k) /\ wsClients[k].sendClosed) =>
              /\ registry' = registry
              /\ wsClients' = wsClients
              /\ wsPanics' = wsPanics]_vars

----------------------------------------------------------------------------
(* C27 *)

\* C27: every envelope in the stream carries the task of a record that was
\* inserted by the same request before the XADD and is PENDING when the
\* envelope is added; a request whose insert failed adds no envelope.
C27_EnvelopeHasPendingRecord ==
    /\ [](\A e \in Entries :
            stream[e].kind = "ok" =>
                /\ stream[e].task \in 1..Len(resp)
                /\ resp[stream[e].task].failed = "none"
                /\ db[stream[e].task].status # "none"
                /\ db[stream[e].task].user = stream[e].user
                /\ db[stream[e].task].content.task = stream[e].task)
    /\ [](\A t \in 1..Len(resp) :
            resp[t].failed = "create" =>
                /\ EnvelopesOf(t) = {}
                /\ db[t] = NoRow)
    /\ [][\A e \in (Len(stream) + 1)..Len(stream') :
            stream'[e].kind = "ok" =>
                /\ db[stream'[e].task] = NoRow
                /\ db'[stream'[e].task] =
                       NewRow(stream'[e].task, stream'[e].user, clock)]_vars

\* An envelope is in the stream and another request's insert failed
C27_Witness ==
    \E t, f \in 1..Len(resp) :
        /\ EnvelopesOf(t) # {}
        /\ resp[f].failed = "create"

----------------------------------------------------------------------------
(* C24 *)

\* Requests for a recipient with a row in users and for one without
NextRecipients ==
    \/ Tick
    \/ Ingest({1, UnknownUser})

SpecRecipients == Init /\ [][NextRecipients]_vars

\* C24: the answer to a request for a recipient without a row in users
\* has the status code and the body shape of the answer the same request
\* gets for a recipient with one.
C24_RecipientExistenceHidden ==
    [][\A u \in ExistingUsers, bad, createErr, enqueueErr, updateErr \in BOOLEAN :
          SendMessage(UnknownUser, bad, createErr, enqueueErr, updateErr) =>
              LET known == HandlerPath(bad, CreateFails(u, createErr),
                                       enqueueErr, updateErr)
              IN  /\ resp'[Len(resp')].code = StatusCode(known)
                  /\ BodyShape(resp'[Len(resp')].failed) = BodyShape(known)]_vars

----------------------------------------------------------------------------
(* C29 *)

C29_WitnessFailedRemoved ==
    \E t \in Tasks : db[t].status = "failed" /\ db[t].deleted

----------------------------------------------------------------------------
(* C30 *)

\* C30: when a write to a connection fails, the connection is no longer in
\* the registry after that step.
C30_FailedWriteUnregisters ==
    [][\A i \in GorIds :
          (gors[i].pc = "write" /\ gors'[i].pc = "store") =>
              clients'[stream[gors[i].entry].user] # gors[i].conn]_vars

----------------------------------------------------------------------------
(* C28 *)

\* One request and entries of other producers, recipient offline
NextForeign ==
    \/ Tick
    \/ resp = <<>> /\ Ingest({1})
    \/ Foreign
    \/ WorkerRead
    \/ WorkerOffline

FairSpecForeign == Init /\ [][NextForeign]_vars /\ Fairness

\* The entry is not an envelope
Malformed(e) == e \in Entries /\ stream[e].kind # "ok"

\* C28: an entry without a payload or with an undecodable one is acked and
\* dropped by the first step of its goroutine: the handler is not invoked,
\* no record, offline slot or frame changes, and the worker still hands
\* the envelopes that come after it to the handler.
C28_MalformedAckedAndDropped ==
    /\ [](\A i \in GorIds :
            Malformed(gors[i].entry) =>
                /\ ~gors[i].ran /\ ~gors[i].wrote /\ ~gors[i].err
                /\ gors[i].outcome = "none"
                /\ gors[i].pc \in {"start", "done"})
    /\ [][\A i \in GorIds :
            (Malformed(gors[i].entry) /\ gors'[i] # gors[i]) =>
                /\ gors[i].pc = "start" /\ gors'[i].pc = "done"
                /\ gors[i].entry \in pel /\ gors[i].entry \notin pel'
                /\ db' = db /\ offline' = offline /\ frames' = frames
                /\ ttl' = ttl /\ stream' = stream]_vars
    /\ \A e \in 1..(MaxForeign + 1) :
          Malformed(e) ~> (e \notin pel /\ \E i \in GorIds :
                              gors[i].entry = e /\ gors[i].pc = "done")
    /\ \A e \in 1..(MaxForeign + 1) :
          (e \in Entries /\ stream[e].kind = "ok"
              /\ \E f \in 1..(e - 1) : Malformed(f))
          ~> (Invocations(e) = 1)

\* A malformed entry was acked and dropped, and the envelope that came
\* after it has been through the handler
C28_Witness ==
    \E f, e \in Entries :
        /\ f < e /\ Malformed(f) /\ stream[e].kind = "ok"
        /\ f \notin pel
        /\ \E i \in GorIds : gors[i].entry = f /\ gors[i].pc = "done"
        /\ \E i \in GorIds : gors[i].entry = e /\ gors[i].ran

----------------------------------------------------------------------------
(* C25 *)

\* The goroutines when the database and the offline store do not fail
WorkerNoFailure ==
    \/ \E i \in GorIds : GorStart(i)
    \/ \E i \in GorIds : GorWake(i)
    \/ \E i \in GorIds : GorHandler(i, FALSE)
    \/ \E i \in GorIds : GorRoute(i)
    \/ \E i \in GorIds : GorSend(i)
    \/ \E i \in GorIds : GorWrite(i)
    \/ \E i \in GorIds : GorStore(i, FALSE)
    \/ \E i \in GorIds : GorAck(i)

\* The pipeline without a failing database, broker or offline store; the
\* recipient connects and disconnects as it likes
NextNoFailure ==
    \/ Tick
    \/ \E u \in {1} : SendMessage(u, FALSE, FALSE, FALSE, FALSE)
    \/ WorkerRead
    \/ WorkerNoFailure
    \/ Sockets({1}, {1})

FairSpecNoFailure == Init /\ [][NextNoFailure]_vars /\ Fairness

\* The record is COMPLETED, the entry is acked, and the result was written
\* to the recipient's connection or placed in the offline store
EndToEnd(t) ==
    /\ db[t].status = "completed"
    /\ EnvelopesOf(t) # {}
    /\ \A e \in EnvelopesOf(t) :
          /\ e \notin pel
          /\ \E i \in GorsOf(e) :
                gors[i].pc = "done" /\ gors[i].outcome \in {"pushed", "stored"}

\* C25: every request that was answered with a task id eventually has its
\* record COMPLETED, its result pushed or stored offline, its entry acked.
C25_EndToEndLiveness ==
    \A t \in Tasks :
        (t <= Len(resp) /\ resp[t].code = 200) ~> EndToEnd(t)

----------------------------------------------------------------------------
(* handlers.GetMessages *)

Max(a, b) == IF a > b THEN a ELSE b

\* The query parameters the requests carry
PageInputs == {-1, 0, 1, 2}
LimitInputs == {-1, 0, 1, 2, MaxLimit, MaxLimit + 1}

\* c.ShouldBindQuery(&req) with binding:"omitempty,min=1" on page and
\* binding:"omitempty,min=1,max=100" on limit: a zero value is skipped,
\* any other value has to be in range
BindQuery(page, limit) ==
    /\ page = 0 \/ page >= 1
    /\ limit = 0 \/ (limit >= 1 /\ limit <= MaxLimit)

\* The defaults the handler applies after the binding
EffectivePage(page) == IF page < 1 THEN 1 ELSE page
EffectiveLimit(limit) ==
    IF limit < 1 \/ limit > MaxLimit THEN DefaultLimit ELSE limit

\* WHERE user_id = ? (gorm adds deleted_at IS NULL)
RowsOf(u) == {t \in Tasks : db[t].status # "none" /\ db[t].user = u
                              /\ ~db[t].deleted}

\* GET /messages?user_id=u&page=..&limit=..: 400 when the binding fails,
\* else total, page and limit as applied and the rows of the window
GetMessages(u, page, limit) ==
    /\ workerUp
    /\ listing' =
          IF ~BindQuery(page, limit)
          THEN [NoListing EXCEPT !.code = 400, !.pageIn = page,
                                 !.limitIn = limit]
          ELSE LET p == EffectivePage(page)
                   l == EffectiveLimit(limit)
                   total == Cardinality(RowsOf(u))
               IN [code |-> 200, pageIn |-> page, limitIn |-> limit,
                   page |-> p, limit |-> l, total |-> total,
                   count |-> Max(0, Min(l, total - (p - 1) * l))]
    /\ UNCHANGED <<clock, db, resp, stream, lastDelivered, pel, workerUp, gors,
                   clients, conns, drains, offline, frames, crashes, replays,
                   ttl, polls, wsVars, hbVars>>

\* Requests are accepted and the history is listed
NextList ==
    \/ Ingest({1})
    \/ \E page \in PageInputs, limit \in LimitInputs : GetMessages(1, page, limit)

SpecList == Init /\ [][NextList]_vars

----------------------------------------------------------------------------
(* C26 *)

\* C26: every listing request is answered 200 with the limit
\* min(max(limit, 1), 100) and the page max(page, 1) applied.
C26_PagingClamped ==
    listing.code # 0 =>
        /\ listing.code = 200
        /\ listing.limit = Min(Max(listing.limitIn, 1), 100)
        /\ listing.page = Max(listing.pageIn, 1)

----------------------------------------------------------------------------
(* Manager.StartHeartbeat *)

\* main: wsManager.StartHeartbeat(interval, timeout) before any request is
\* served; the ticker fires first one interval later
StartHeartbeat ==
    /\ workerUp /\ ~hb.on
    /\ hb' = [NoHeartbeat EXCEPT !.on = TRUE,
                                 !.due = clock + HeartbeatArgs.interval]
    /\ UNCHANGED <<clock, db, resp, stream, lastDelivered, pel, workerUp, gors,
                   clients, conns, drains, offline, frames, crashes, replays,
                   ttl, polls, wsVars, lastActive, listing>>

\* The peer vanishes without closing
PeerSilent(c) ==
    /\ conns[c].open /\ conns[c].handler /\ ~conns[c].silent
    /\ conns' = [conns EXCEPT ![c].silent = TRUE]
    /\ UNCHANGED <<clock, db, resp, stream, lastDelivered, pel, workerUp, gors,
                   clients, drains, offline, frames, crashes, replays, ttl,
                   polls, wsVars, hbVars, listing>>

\* A pong or a frame of the peer arrives: the pong handler or the read loop
\* calls Manager.UpdateActiveTime(userID)
Inbound(c) ==
    /\ conns[c].open /\ conns[c].handler /\ ~conns[c].silent
    /\ lastActive' = Touch(conns[c].user)
    /\ lastActive' # lastActive
    /\ UNCHANGED <<clock, db, resp, stream, lastDelivered, pel, workerUp, gors,
                   clients, conns, drains, offline, frames, crashes, replays,
                   ttl, polls, wsVars, hb, listing>>

\* A staleness test with twice the timeout
StaleLate(last, now) == now - last > 2 * HeartbeatArgs.timeout

\* now.Sub(last) > timeout
Stale(last, now) == now - last > HeartbeatArgs.timeout

\* The ticker has fired, or evictions are under way
HeartbeatDue == hb.on /\ (hb.pc = "evict" \/ clock >= hb.due)

\* One tick of the heartbeat: a ping to every registered connection (a
\* failed ping is logged), then the users whose lastActive is stale are
\* collected
HeartbeatTick ==
    /\ workerUp /\ hb.on /\ hb.pc = "wait" /\ clock >= hb.due
    /\ LET stale == {u \in Users : /\ lastActive[u] # NullTime
                                    /\ Stale(lastActive[u], clock)}
       IN hb' = [hb EXCEPT !.due = @ + HeartbeatArgs.interval,
                           !.toRemove = stale,
                           !.pc = IF stale = {} THEN "wait" ELSE "evict"]
    /\ UNCHANGED <<clock, db, resp, stream, lastDelivered, pel, workerUp, gors,
                   clients, conns, drains, offline, frames, crashes, replays,
                   ttl, polls, wsVars, lastActive, listing>>

\* m.Unregister(userID) for one of the collected users
HeartbeatEvict(u) ==
    /\ workerUp /\ hb.on /\ hb.pc = "evict" /\ u \in hb.toRemove
    /\ LET r == Unregister(u) IN
         /\ clients' = r.clients
         /\ conns' = r.conns
         /\ lastActive' = r.lastActive
    /\ hb' = [hb EXCEPT !.toRemove = @ \ {u},
                        !.pc = IF hb.toRemove = {u} THEN "wait" ELSE "evict"]
    /\ UNCHANGED <<clock, db, resp, stream, lastDelivered, pel, workerUp, gors,
                   drains, offline, frames, crashes, replays, ttl, polls,
                   wsVars, listing>>

Heartbeat ==
    \/ HeartbeatTick
    \/ \E u \in Users : HeartbeatEvict(u)

\* The pipeline with the heartbeat running and a peer that may fall
\* silent; the heartbeat goroutine is not delayed: time does not pass while
\* its tick is due
NextHeartbeat ==
    \/ StartHeartbeat
    \/ hb.on /\ ~HeartbeatDue /\ Tick
    \/ hb.on /\ Load < MaxLoad
             /\ \E u \in {1} : SendMessage(u, FALSE, FALSE, FALSE, FALSE)
    \/ hb.on /\ WorkerRead
    \/ hb.on /\ WorkerNoFailure
    \/ hb.on /\ Sockets({1}, {1})
    \/ \E c \in {1} : PeerSilent(c)
    \/ \E c \in {1} : Inbound(c)
    \/ Heartbeat

FairnessHeartbeat ==
    /\ WF_vars(~HeartbeatDue /\ Tick)
    /\ WF_vars(Heartbeat)
    /\ WF_vars(WorkerRead)
    /\ \A i \in 1..MaxGors : WF_vars(GorStep(i))

FairSpecHeartbeat == Init /\ [][NextHeartbeat]_vars /\ FairnessHeartbeat

----------------------------------------------------------------------------
(* C23 *)

\* C23: a heartbeat tick collects for eviction every user whose
\* lastActive is exactly the timeout before the tick's clock reading.
C23_BoundaryEvicted ==
    [][HeartbeatTick =>
          \A u \in Users :
              (lastActive[u] # NullTime
               /\ clock - lastActive[u] = HeartbeatArgs.timeout) =>
                  u \in hb'.toRemove]_vars

----------------------------------------------------------------------------
(* C22 *)

\* The connection the registry holds for its user has fallen silent
SilentRegistered(c) ==
    conns[c].silent /\ conns[c].user # 0 /\ clients[conns[c].user] = c

----------------------------------------------------------------------------
(* ws.Manager.SendToUser, ws.Client.WritePump *)

WsSendIds == 1..Len(wsSends)

\* One call of SendToUser: the slice it read under the lock, its position
\* in the loop, the clients whose channel took the message, and whether it
\* returned an error
NewSend(u, snapshot) ==
    [user |-> u, snapshot |-> snapshot, next |-> 1, accepted |-> {},
     pc |-> IF snapshot = <<>> THEN "done" ELSE "loop", err |-> FALSE]

\* SendToUser up to the loop: the user's slice is read; without clients the
\* call returns nil
WsSendToUser(u) ==
    /\ Len(wsSends) < MaxWsSends
    /\ wsSends' = Append(wsSends, NewSend(u, registry[u]))
    /\ UNCHANGED <<clock, db, resp, stream, lastDelivered, pel, workerUp, gors,
                   clients, conns, drains, offline, frames, crashes, replays,
                   ttl, polls, registry, wsClients, wsPanics, hbVars, listing>>

\* One iteration of the loop: select { case client.Send <- data: default: }.
\* A full channel drops the message for that client, a closed channel
\* panics; after the last client the call returns nil.
WsSendNext(s) ==
    LET call == wsSends[s]
        k == call.snapshot[call.next]
        last == call.next = Len(call.snapshot)
    IN
    /\ s \in WsSendIds /\ call.pc = "loop"
    /\ IF wsClients[k].sendClosed
       THEN /\ wsSends' = [wsSends EXCEPT ![s].pc = "panicked"]
            /\ wsPanics' = wsPanics + 1
            /\ UNCHANGED wsClients
       ELSE /\ UNCHANGED wsPanics
            /\ IF Len(wsClients[k].buf) < ChanCap
               THEN /\ wsClients' = [wsClients EXCEPT ![k].buf = Append(@, s),
                                                      ![k].acc = Append(@, s)]
                    /\ wsSends' = [wsSends EXCEPT
                                     ![s].accepted = @ \cup {k},
                                     ![s].next = @ + 1,
                                     ![s].pc = IF last THEN "done" ELSE "loop"]
               ELSE /\ UNCHANGED wsClients
                    /\ wsSends' = [wsSends EXCEPT
                                     ![s].next = @ + 1,
                                     ![s].pc = IF last THEN "done" ELSE "loop"]
    /\ UNCHANGED <<clock, db, resp, stream, lastDelivered, pel, workerUp, gors,
                   clients, conns, drains, offline, frames, crashes, replays,
                   ttl, polls, registry, hbVars, listing>>

\* A receive that takes the newest element of the channel
ChanRecvLast(buf) ==
    [msg |-> buf[Len(buf)], rest |-> SubSeq(buf, 1, Len(buf) - 1)]

\* message, ok := <-c.Send on a channel that holds something
ChanRecv(buf) == [msg |-> Head(buf), rest |-> Tail(buf)]

\* The ping frame in a socket's output
Ping == 0

\* The data frames of a socket's output
Data(out) == SelectSeq(out, LAMBDA x : x # Ping)

\* WritePump takes a message from the channel and writes it to the socket
\* with NextWriter, Write, Close; a write error (writeErr) ends WritePump
\* and the message is lost.
WsWritePump(k, writeErr) ==
    /\ k \in WsClientIds /\ wsClients[k].pump /\ wsClients[k].buf # <<>>
    /\ LET r == ChanRecv(wsClients[k].buf) IN
       wsClients' = [wsClients EXCEPT
           ![k].buf = r.rest,
           ![k].out = IF writeErr THEN @ ELSE Append(@, r.msg),
           ![k].pump = ~writeErr]
    /\ UNCHANGED <<clock, db, resp, stream, lastDelivered, pel, workerUp, gors,
                   clients, conns, drains, offline, frames, crashes, replays,
                   ttl, polls, registry, wsPanics, wsSends, hbVars, listing>>

\* case <-ticker.C: WritePump writes a ping; an error ends WritePump
WsKeepalive(k, writeErr) ==
    /\ k \in WsClientIds /\ wsClients[k].pump
    /\ Len(wsClients[k].out) - Len(Data(wsClients[k].out)) < MaxWsPings
    /\ wsClients' = [wsClients EXCEPT
           ![k].out = IF writeErr THEN @ ELSE Append(@, Ping),
           ![k].pump = ~writeErr]
    /\ UNCHANGED <<clock, db, resp, stream, lastDelivered, pel, workerUp, gors,
                   clients, conns, drains, offline, frames, crashes, replays,
                   ttl, polls, registry, wsPanics, wsSends, hbVars, listing>>

NextWsSend ==
    \/ \E u \in Users : WsRegister(u)
    \/ \E k \in WsClientIds : WsUnregister(k)
    \/ \E u \in Users : WsSendToUser(u)
    \/ \E s \in WsSendIds : WsSendNext(s)
    \/ \E k \in WsClientIds : WsWritePump(k, FALSE)

SpecWsSend == Init /\ [][NextWsSend]_vars

----------------------------------------------------------------------------
(* C21 *)

\* C21: a SendToUser call that has returned reports success iff the
\* channel of at least one client of the user took the message.
C21_SendReportsDelivery ==
    \A s \in WsSendIds :
        wsSends[s].pc = "done" =>
            (~wsSends[s].err <=> wsSends[s].accepted # {})

----------------------------------------------------------------------------
(* C40 *)

\* The goroutine is between the payload checks and the return of the handler
BeforeReturn(i) ==
    gors[i].pc \in {"start", "sleep", "handler", "route", "send", "write",
                    "store"}

\* C40: the entry of an envelope leaves the pending list only in a step of
\* its goroutine that follows the handler's return: the handler has run
\* and the routing has reached its outcome; while the goroutine is before
\* that point the entry is pending.
C40_AckAfterHandler ==
    /\ [][\A e \in Entries :
            (stream[e].kind = "ok" /\ e \in pel /\ e \notin pel') =>
                \E i \in GorsOf(e) :
                    /\ gors[i].pc = "ack" /\ gors'[i].pc = "done"
                    /\ gors[i].ran
                    /\ gors[i].outcome \in
                          {"pushed", "notsent", "stored", "storefail"}]_vars
    /\ [](\A i \in GorIds :
            (EntryOf(i).kind = "ok" /\ BeforeReturn(i)) =>
                gors[i].entry \in pel)

\* An envelope's entry was acked after its handler ran
C40_Witness ==
    \E i \in GorIds :
        /\ EntryOf(i).kind = "ok" /\ gors[i].pc = "done" /\ gors[i].ran
        /\ gors[i].entry \notin pel

----------------------------------------------------------------------------
(* C35 *)

\* The pipeline for one request of an offline recipient, with redelivery
\* and the scheduled sweep, fairly scheduled
NextTolerant ==
    \/ Tick
    \/ resp = <<>> /\ Ingest({1})
    \/ WorkerRead
    \/ WorkerOffline
    \/ \E e \in Entries : Redeliver(e)
    \/ cleanupOldMessages

FairSpecTolerant == Init /\ [][NextTolerant]_vars /\ Fairness

\* C35: whether or not the handler's update changed a row (the database
\* failed, or the row is gone), the handler goes on to the routing, the
\* goroutine reaches its end with a routing outcome and its XACK done, and
\* no step other than a request creates a row or touches a removed one.
C35_WorkerToleratesStore ==
    /\ [][\A i \in GorIds :
            (gors[i].pc = "handler" /\ gors'[i].pc # "handler") =>
                /\ gors'[i].pc = "route" /\ gors'[i].ran
                /\ ~gors'[i].wrote => db' = db]_vars
    /\ [][resp' = resp =>
            \A t \in Tasks :
                (db[t].status = "none" \/ db[t].deleted) => db'[t] = db[t]]_vars
    /\ [][\A i \in GorIds :
            (gors[i].ran /\ ~gors[i].wrote /\ gors[i].pc = "ack"
             /\ gors'[i].pc = "done") =>
                /\ gors[i].entry \notin pel'
                /\ gors[i].outcome \in
                      {"pushed", "notsent", "stored", "storefail"}]_vars
    /\ (\E i \in GorIds : gors[i].ran /\ ~gors[i].wrote /\ gors[i].pc # "done")
          ~> (\A i \in GorIds : (gors[i].ran /\ ~gors[i].wrote) =>
                                    gors[i].pc = "done")

\* A redelivered task whose row the sweep had removed was processed to the
\* end: nothing written, the result routed
C35_Witness ==
    \E i \in GorIds :
        /\ gors[i].pc = "done" /\ gors[i].ran /\ ~gors[i].wrote
        /\ db[EntryOf(i).task].deleted
        /\ gors[i].outcome = "stored"

----------------------------------------------------------------------------
(* C34 *)

\* C34: the lookup of a push whose write is bound to fail (the socket of
\* the registered connection is closed already) leaves lastActive as it is.
C34_FailedPushKeepsLastActive ==
    [][\A i \in GorIds :
          (gors[i].pc = "send" /\ gors'[i].pc = "write"
           /\ ~WriteSucceeds(gors'[i].conn)) =>
              lastActive' = lastActive]_vars

----------------------------------------------------------------------------
(* C37 *)

\* C37: the heartbeat unregisters a user only if the user's lastActive is
\* still stale when Unregister is called.
C37_EvictsOnlyStillStale ==
    [][\A u \in Users :
          (HeartbeatEvict(u) /\ clients[u] # 0) =>
              Stale(lastActive[u], clock)]_vars

----------------------------------------------------------------------------
(* C38 *)

\* One user with up to two sockets, the heartbeat running
NextRegistry ==
    \/ StartHeartbeat
    \/ hb.on /\ ~HeartbeatDue /\ Tick
    \/ hb.on /\ Sockets({1}, ConnIds)
    \/ \E c \in ConnIds : PeerSilent(c)
    \/ \E c \in ConnIds : Inbound(c)
    \/ Heartbeat

SpecRegistry == Init /\ [][NextRegistry]_vars

\* C38: while the heartbeat runs, the users with a lastActive entry are
\* the users with a registered connection.
C38_LastActiveIffRegistered ==
    hb.on => \A u \in Users : (lastActive[u] # NullTime) <=> (clients[u] # 0)

----------------------------------------------------------------------------
(* C39 *)

\* C39: no SendToUser call sends on a channel that Unregister has closed.
C39_NoSendOnClosedChannel ==
    \A s \in WsSendIds : wsSends[s].pc # "panicked"

----------------------------------------------------------------------------
(* C31 *)

\* The tasks inside conn.WriteMessage on socket c: a worker goroutine
\* between Manager.SendMessage's lookup and the return of its write, and
\* the drain goroutine of c between its GET and the return of its write.
\* Neither holds a lock there.
WritersOf(c) ==
    {<<"worker", i>> : i \in {j \in GorIds : /\ Running(j)
                                             /\ gors[j].pc = "write"
                                             /\ gors[j].conn = c}}
    \cup {<<"drain", d>> : d \in {e \in {c} : drains[e].pc = "write"}}

\* C31: at most one task is writing to a socket at any instant.
C31_WritesSerialized ==
    \A c \in ConnIds : Cardinality(WritersOf(c)) <= 1

----------------------------------------------------------------------------
(* C32 *)

\* C32: the critical section of Manager.Unregister, entered by the
\* heartbeat for a stale user, closes no socket.
C32_UnregisterClosesNoSocket ==
    [][\A u \in Users :
          HeartbeatEvict(u) =>
              \A c \in ConnIds : conns'[c].open = conns[c].open]_vars

----------------------------------------------------------------------------
(* C36 *)

\* C36: when a push looks up its recipient, the socket it is going to write
\* its one realtime frame to is every open socket of the recipient whose
\* handler has called Register and has not yet returned.
C36_PushAddressesEveryConnection ==
    [][\A i \in GorIds :
          (gors[i].pc = "send" /\ gors'[i].pc = "write") =>
              \A c \in ConnIds :
                  (/\ conns[c].user = EntryOf(i).user
                   /\ conns[c].open /\ conns[c].handler) =>
                      gors'[i].conn = c]_vars

----------------------------------------------------------------------------
(* C33 *)

\* One user with a client per socket, concurrent SendToUser calls, the
\* writers and their keepalive
NextFifo ==
    \/ Len(wsClients) < Cardinality(ConnIds) /\ WsRegister(1)
    \/ WsSendToUser(1)
    \/ \E s \in WsSendIds : WsSendNext(s)
    \/ \E k \in WsClientIds, writeErr \in BOOLEAN : WsWritePump(k, writeErr)
    \/ \E k \in WsClientIds, writeErr \in BOOLEAN : WsKeepalive(k, writeErr)

SpecFifo == Init /\ [][NextFifo]_vars

IsPrefix(p, q) == Len(p) <= Len(q) /\ SubSeq(q, 1, Len(p)) = p

\* C33: the payloads a client's writer has put on the socket are, in order,
\* the first payloads its channel accepted; while the writer runs, they and
\* the channel's content together are all the accepted payloads in the
\* order of acceptance.
C33_FifoPerConnection ==
    \A k \in WsClientIds :
        /\ IsPrefix(Data(wsClients[k].out), wsClients[k].acc)
        /\ wsClients[k].pump =>
               Data(wsClients[k].out) \o wsClients[k].buf = wsClients[k].acc

\* A socket got the payloads of two calls, the later call's first, with a
\* ping in between
C33_Witness ==
    \E k \in WsClientIds : wsClients[k].out = <<2, Ping, 1>>

====
